---------------------------- MODULE Spec2Model ----------------------------
(***************************************************************************)
(* A model of src/app.py: the Persona backend.  A Flask application with   *)
(* one process-wide dictionary `memory` (xp, last_chat, last_tasks and the *)
(* three history logs), one upstream client (call_openrouter) and seven    *)
(* request handlers.                                                       *)
(*                                                                         *)
(* Strings that the code inspects (message, thread, goal, action) are      *)
(* sequences of one-character strings, so that str.strip() and str.lower() *)
(* are computed character by character.  Optional values (None or a value) *)
(* are sequences of length 0 or 1.                                         *)
(***************************************************************************)
EXTENDS Integers, Sequences, FiniteSets, TLC

VARIABLES
    xp,           \* memory["xp"]
    last_chat,    \* memory["last_chat"]   (None = <<>>, q = <<q>>)
    last_tasks,   \* memory["last_tasks"]  (None = <<>>, items = <<items>>)
    heap,         \* the dict objects that memory["history"] has referred to
    history,      \* memory["history"]: a reference into heap
    now,          \* the clock read by time.time()
    rd,           \* the /api/history request in flight (concurrent specification)
    xt,           \* the two /api/xp requests in flight (concurrent XP specification)
    appended,     \* ghost: the records appended to each log since the last clear
    last          \* the last completed request and its response, as the client saw it

vars == <<xp, last_chat, last_tasks, heap, history, now, rd, xt, appended, last>>

----------------------------------------------------------------------------
(* Bounds of the exploration *)

MaxClock  == 2      \* appends explored by the sequential specification
MaxXp     == 530    \* the xp total up to which /api/xp is explored
LongLog   == 22     \* longest log explored by the long-log specification
LongClock == 24     \* appends explored by the long-log specification
ConcClock == 3      \* appends explored by the concurrent specification

----------------------------------------------------------------------------
(* Values *)

None == <<>>
Some(v) == <<v>>

Min(a, b) == IF a < b THEN a ELSE b
Max(a, b) == IF a > b THEN a ELSE b

\* the characters str.strip() removes
Whitespace == {" ", "\t", "\n", "\r"}

\* str.strip(): drop leading and trailing whitespace
RECURSIVE LStrip(_)
LStrip(s) == IF s # <<>> /\ Head(s) \in Whitespace THEN LStrip(Tail(s)) ELSE s

RECURSIVE RStrip(_)
RStrip(s) ==
    IF s # <<>> /\ s[Len(s)] \in Whitespace THEN RStrip(SubSeq(s, 1, Len(s) - 1)) ELSE s

\* a variant that forgets the call: the text is used as received
strip_Omitted(s) == s

strip(s) == RStrip(LStrip(s))

\* str.lower(), on the letters the explored actions use
LowerChar(c) ==
    CASE c = "A" -> "a" [] c = "C" -> "c" [] c = "E" -> "e" [] c = "H" -> "h"
      [] c = "I" -> "i" [] c = "K" -> "k" [] c = "L" -> "l" [] c = "M" -> "m"
      [] c = "S" -> "s" [] c = "T" -> "t" [] c = "X" -> "x"
      [] OTHER -> c

\* a variant that forgets the call: labels are matched in the case received
lower_Omitted(s) == s

lower(s) == [i \in 1..Len(s) |-> LowerChar(s[i])]

\* s[i:] of a Python list, i possibly negative
PySliceFrom(s, i) ==
    LET n == Len(s)
        start == IF i < 0 THEN Max(n + i, 0) ELSE Min(i, n)
    IN  SubSeq(s, start + 1, n)

\* a JSON request body with at most one key of interest: dict.get(key)
NoKey == [has |-> FALSE, val |-> <<>>]
Key(v) == [has |-> TRUE, val |-> v]

\* data.get(key, default)
Get(data, default) == IF data.has THEN data.val ELSE default

----------------------------------------------------------------------------
(* Upstream client *)

\* app.py:11  os.getenv("OPENROUTER_MODEL", ...) with the variable unset
MODEL == "meta-llama/llama-3.1-8b-instruct"

\* app.py:68-72
models == << "meta-llama/llama-3.1-8b-instruct",
             "mistralai/mistral-7b-instruct-v0.3",
             "google/gemma-2-9b-it" >>

\* decoded JSON bodies the upstream can answer with
ErrorBody(e) == [hasChoices |-> FALSE, choices |-> <<>>, error |-> e]
ChoicesBody(cs) == [hasChoices |-> TRUE, choices |-> cs, error |-> ""]
Choice(c) == [content |-> c]

\* what requests.post(...).json() does: raise, or return a decoded body
Raises(e) == [raises |-> TRUE, exc |-> e, body |-> ErrorBody("")]
Returns(b) == [raises |-> FALSE, exc |-> "", body |-> b]

Outcomes ==
    { Raises("timed out"),
      Returns(ErrorBody("rate limited")),
      Returns(ChoicesBody(<<>>)),
      Returns(ChoicesBody(<<Choice("r1"), Choice("r2")>>)) }

\* app.py:34-50  the body on success, the exception as an error value otherwise
call_openrouter(outcome) ==
    IF outcome.raises THEN ErrorBody(outcome.exc) ELSE outcome.body

\* the record of one upstream call, as a fake upstream would log it
Call(model, max_tokens) == [model |-> model, max_tokens |-> max_tokens]

----------------------------------------------------------------------------
(* State store *)

EmptyHistory == [chats |-> <<>>, tasks |-> <<>>, emails |-> <<>>]

ObjIds == {0, 1}

\* the dict memory["history"] refers to
H == heap[history]

\* JSON values of an "error" field: a fixed string or an upstream payload
JNone == [tag |-> "none", s |-> "", obj |-> ErrorBody("")]
JStr(s) == [tag |-> "str", s |-> s, obj |-> ErrorBody("")]
JObj(o) == [tag |-> "obj", s |-> "", obj |-> o]

NoHealth == [ok |-> FALSE, model |-> "", xp |-> 0, last_chat |-> None, last_tasks |-> None]

\* a response with nothing in it; each handler fills in its own fields
Response(ep, req) ==
    [ ep |-> ep, afterClear |-> (last.ep = "clear"), req |-> req,
      status |-> 200, fault |-> FALSE, error |-> JNone,
      reply |-> None, model |-> "", tasks |-> None, draft |-> None,
      action |-> <<>>, xp_gained |-> 0, total_xp |-> 0,
      ok |-> FALSE, health |-> NoHealth, hist |-> EmptyHistory,
      up |-> <<>>, calls |-> <<>> ]

\* an unhandled exception in a handler: the framework answers 500, no JSON body
Fault(ep, req, up, calls) ==
    [Response(ep, req) EXCEPT !.status = 500, !.fault = TRUE, !.up = up, !.calls = calls]

RdIdle == [pc |-> "idle", h |-> 0, chats |-> <<>>, tasks |-> <<>>, emails |-> <<>>,
           pre |-> EmptyHistory, cleared |-> FALSE]

\* the threads that serve the two concurrent /api/xp requests
XpThreads == {1, 2}

XtIdle ==
    [ base |-> 500,
      th |-> [t \in XpThreads |->
                [pc |-> "idle", data |-> NoKey, gain |-> 0, reg |-> 0, total |-> 0]] ]

Init ==
    /\ xp = 500
    /\ last_chat = None
    /\ last_tasks = None
    /\ heap = [id \in ObjIds |-> EmptyHistory]
    /\ history = 0
    /\ now = 0
    /\ rd = RdIdle
    /\ xt = XtIdle
    /\ appended = EmptyHistory
    /\ last = [ ep |-> "start", afterClear |-> FALSE, req |-> NoKey,
                status |-> 200, fault |-> FALSE, error |-> JNone,
                reply |-> None, model |-> "", tasks |-> None, draft |-> None,
                action |-> <<>>, xp_gained |-> 0, total_xp |-> 0,
                ok |-> FALSE, health |-> NoHealth, hist |-> EmptyHistory,
                up |-> <<>>, calls |-> <<>> ]

\* a variant that appends the record twice
Append_Twice(log, rec) ==
    /\ heap' = [heap EXCEPT ![history][log] = Append(Append(@, rec), rec)]
    /\ appended' = [appended EXCEPT ![log] = Append(@, rec)]
    /\ now' = now + 1

\* a variant that inserts at the front of the log: list.insert(0, rec)
Append_AtFront(log, rec) ==
    /\ heap' = [heap EXCEPT ![history][log] = <<rec>> \o @]
    /\ appended' = [appended EXCEPT ![log] = Append(@, rec)]
    /\ now' = now + 1

\* list.append on one log of the current history dict
Append_(log, rec) ==
    /\ heap' = [heap EXCEPT ![history][log] = Append(@, rec)]
    /\ appended' = [appended EXCEPT ![log] = Append(@, rec)]
    /\ now' = now + 1


----------------------------------------------------------------------------
(* Request handlers: one action per handler, the whole handler in one step *)

\* a variant whose loop leaves out the last model of the list
RECURSIVE AskLoop_SkipsLast(_, _, _)
AskLoop_SkipsLast(i, up, calls) ==
    IF i > Len(models) - 1
    THEN [kind |-> "failed", m |-> "", ai |-> "", calls |-> calls]
    ELSE LET resp == call_openrouter(up[i])
             made == Append(calls, Call(models[i], 80))
         IN  IF resp.hasChoices
             THEN IF resp.choices = <<>>
                  THEN [kind |-> "raised", m |-> models[i], ai |-> "", calls |-> made]
                  ELSE [kind |-> "reply", m |-> models[i],
                        ai |-> resp.choices[1].content, calls |-> made]
             ELSE AskLoop_SkipsLast(i + 1, up, made)

\* app.py:74-87  the fallback loop from model i on: one call per model, stop
\* at the first response with the key "choices".  `up` is the upstream's
\* outcome for each model of the list.
RECURSIVE AskLoop(_, _, _)
AskLoop(i, up, calls) ==
    IF i > Len(models)
    THEN [kind |-> "failed", m |-> "", ai |-> "", calls |-> calls]
    ELSE LET resp == call_openrouter(up[i])
             made == Append(calls, Call(models[i], 80))
         IN  IF resp.hasChoices
             THEN IF resp.choices = <<>>
                  THEN \* resp["choices"][0] raises IndexError
                       [kind |-> "raised", m |-> models[i], ai |-> "", calls |-> made]
                  ELSE [kind |-> "reply", m |-> models[i],
                        ai |-> resp.choices[1].content, calls |-> made]
             ELSE AskLoop(i + 1, up, made)

\* a variant that remembers the message only once a model has replied
Ask_RemembersOnReply(data, up) ==
    LET q == strip(Get(data, <<>>))
        r == AskLoop(1, up, <<>>)
    IN  IF q = <<>>
        THEN /\ last' = [Response("ask", data) EXCEPT
                            !.status = 400, !.error = JStr("Empty message")]
             /\ UNCHANGED <<xt, xp, last_chat, last_tasks, heap, history, now, rd, appended>>
        ELSE /\ CASE r.kind = "reply" ->
                       /\ last_chat' = Some(q)
                       /\ Append_("chats", [user |-> q, ai |-> r.ai, ts |-> now])
                       /\ last' = [Response("ask", data) EXCEPT
                                      !.reply = Some(r.ai), !.model = r.m,
                                      !.up = up, !.calls = r.calls]
                  [] r.kind = "raised" ->
                       /\ last' = Fault("ask", data, up, r.calls)
                       /\ UNCHANGED <<last_chat, heap, appended, now>>
                  [] OTHER ->
                       /\ last' = [Response("ask", data) EXCEPT
                                      !.status = 500, !.error = JStr("All models failed"),
                                      !.up = up, !.calls = r.calls]
                       /\ UNCHANGED <<last_chat, heap, appended, now>>
             /\ UNCHANGED <<xt, xp, last_tasks, history, rd>>

\* app.py:53-87  POST /api/ask
Ask(data, up) ==
    LET q == strip(Get(data, <<>>))
        r == AskLoop(1, up, <<>>)
    IN  IF q = <<>>
        THEN /\ last' = [Response("ask", data) EXCEPT
                            !.status = 400, !.error = JStr("Empty message")]
             /\ UNCHANGED <<xt, xp, last_chat, last_tasks, heap, history, now, rd, appended>>
        ELSE /\ last_chat' = Some(q)
             /\ CASE r.kind = "reply" ->
                       /\ Append_("chats", [user |-> q, ai |-> r.ai, ts |-> now])
                       /\ last' = [Response("ask", data) EXCEPT
                                      !.reply = Some(r.ai), !.model = r.m,
                                      !.up = up, !.calls = r.calls]
                  [] r.kind = "raised" ->
                       /\ last' = Fault("ask", data, up, r.calls)
                       /\ UNCHANGED <<heap, appended, now>>
                  [] OTHER ->
                       /\ last' = [Response("ask", data) EXCEPT
                                      !.status = 500, !.error = JStr("All models failed"),
                                      !.up = up, !.calls = r.calls]
                       /\ UNCHANGED <<heap, appended, now>>
             /\ UNCHANGED <<xt, xp, last_tasks, history, rd>>

\* "Plan my day effectively"
DefaultGoal == << "P","l","a","n"," ","m","y"," ","d","a","y"," ",
                  "e","f","f","e","c","t","i","v","e","l","y" >>

\* app.py:90-111  POST /api/tasks
Tasks(data, outcome) ==
    LET goal == strip(Get(data, DefaultGoal))
        resp == call_openrouter(outcome)
        calls == << Call(MODEL, 90) >>
    IN  /\ IF resp.hasChoices
           THEN IF resp.choices = <<>>
                THEN /\ last' = Fault("tasks", data, <<outcome>>, calls)
                     /\ UNCHANGED <<last_tasks, heap, appended, now>>
                ELSE LET items == resp.choices[1].content
                     IN  /\ last_tasks' = Some(items)
                         /\ Append_("tasks", [goal |-> goal, items |-> items, ts |-> now])
                         /\ last' = [Response("tasks", data) EXCEPT
                                        !.tasks = Some(items),
                                        !.up = <<outcome>>, !.calls = calls]
           ELSE /\ last' = [Response("tasks", data) EXCEPT
                               !.status = 400, !.error = JObj(resp),
                               !.up = <<outcome>>, !.calls = calls]
                /\ UNCHANGED <<last_tasks, heap, appended, now>>
        /\ UNCHANGED <<xt, xp, last_chat, history, rd>>

\* app.py:114-141  POST /api/draft-email
DraftEmail(data, outcome) ==
    LET thread == strip(Get(data, <<>>))
        resp == call_openrouter(outcome)
        calls == << Call(MODEL, 130) >>
    IN  IF thread = <<>>
        THEN /\ last' = [Response("draft-email", data) EXCEPT
                            !.status = 400, !.error = JStr("Empty thread")]
             /\ UNCHANGED <<xt, xp, last_chat, last_tasks, heap, history, now, rd, appended>>
        ELSE /\ last_chat' = Some(thread)
             /\ IF resp.hasChoices
                THEN IF resp.choices = <<>>
                     THEN /\ last' = Fault("draft-email", data, <<outcome>>, calls)
                          /\ UNCHANGED <<heap, appended, now>>
                     ELSE LET draft == resp.choices[1].content
                          IN  /\ Append_("emails",
                                         [thread |-> thread, draft |-> draft, ts |-> now])
                              /\ last' = [Response("draft-email", data) EXCEPT
                                             !.draft = Some(draft),
                                             !.up = <<outcome>>, !.calls = calls]
                ELSE /\ last' = [Response("draft-email", data) EXCEPT
                                    !.status = 400, !.error = JObj(resp),
                               !.up = <<outcome>>, !.calls = calls]
                     /\ UNCHANGED <<heap, appended, now>>
             /\ UNCHANGED <<xt, xp, last_tasks, history, rd>>

\* app.py:149  {"chat":10, "task":20, "email":15}.get(action, 5)
Gain(action) ==
    CASE action = <<"c","h","a","t">> -> 10
      [] action = <<"t","a","s","k">> -> 20
      [] action = <<"e","m","a","i","l">> -> 15
      [] OTHER -> 5

\* app.py:148  (data.get("action") or "chat").lower(): an absent key and an
\* empty string are both falsy
ActionOf(data) ==
    LET a == IF data.has /\ data.val # <<>> THEN data.val ELSE <<"c","h","a","t">>
    IN  lower(a)

\* app.py:144-151  POST /api/xp
XpUpdate(data) ==
    LET action == ActionOf(data)
        gain == Gain(action)
    IN  /\ xp' = xp + gain
        /\ last' = [Response("xp", data) EXCEPT
                       !.action = action, !.xp_gained = gain, !.total_xp = xp + gain]
        /\ UNCHANGED <<xt, last_chat, last_tasks, heap, history, now, rd, appended>>

\* app.py:154-162  GET /api/health
Health ==
    /\ last' = [Response("health", NoKey) EXCEPT
                   !.health = [ok |-> TRUE, model |-> MODEL, xp |-> xp,
                               last_chat |-> last_chat, last_tasks |-> last_tasks]]
    /\ UNCHANGED <<xt, xp, last_chat, last_tasks, heap, history, now, rd, appended>>

\* a variant that takes the head of the log: log[:20]
Window_Head(log) == SubSeq(log, 1, Min(Len(log), 20))

\* app.py:171-173  log[-20:]
Window(log) == PySliceFrom(log, -20)

\* a variant that keeps only the window it returns: the logs are cut on read
GetHistory_Truncates ==
    LET h == heap[history]
        cut == [chats |-> Window(h.chats), tasks |-> Window(h.tasks),
                emails |-> Window(h.emails)]
    IN  /\ last' = [Response("history", NoKey) EXCEPT !.hist = cut]
        /\ heap' = [heap EXCEPT ![history] = cut]
        /\ UNCHANGED <<xt, xp, last_chat, last_tasks, history, now, rd, appended>>

\* app.py:165-174  GET /api/history
GetHistory ==
    LET h == heap[history]
    IN  /\ last' = [Response("history", NoKey) EXCEPT
                       !.hist = [chats |-> Window(h.chats),
                                 tasks |-> Window(h.tasks),
                                 emails |-> Window(h.emails)]]
        /\ UNCHANGED <<xt, xp, last_chat, last_tasks, heap, history, now, rd, appended>>

\* a dict object is held when the request in flight still refers to it
Held(id) == rd.pc # "idle" /\ rd.h = id

\* the object a new dict literal is allocated at: one nothing refers to any more
NewDict == CHOOSE id \in ObjIds : ~Held(id) /\ \A other \in ObjIds : ~Held(other) => id <= other

\* a variant that resets the whole of memory, not the history alone
ClearHistory_ResetsAll ==
    /\ history' = NewDict
    /\ heap' = [id \in ObjIds |-> IF Held(id) THEN heap[id] ELSE EmptyHistory]
    /\ appended' = EmptyHistory
    /\ rd' = IF rd.pc = "idle" THEN rd ELSE [rd EXCEPT !.cleared = TRUE]
    /\ last' = [Response("clear", NoKey) EXCEPT !.ok = TRUE]
    /\ xp' = 500 /\ last_chat' = None /\ last_tasks' = None
    /\ UNCHANGED <<xt, now>>

\* a variant that empties the chat log only: memory["history"]["chats"] = []
ClearHistory_ChatsOnly ==
    /\ heap' = [heap EXCEPT ![history].chats = <<>>]
    /\ appended' = [appended EXCEPT !.chats = <<>>]
    /\ rd' = IF rd.pc = "idle" THEN rd ELSE [rd EXCEPT !.cleared = TRUE]
    /\ last' = [Response("clear", NoKey) EXCEPT !.ok = TRUE]
    /\ UNCHANGED <<xt, xp, last_chat, last_tasks, history, now>>

\* app.py:176-180  POST /api/history/clear: memory["history"] is bound to a new
\* dict; the old one lives on only while a request in flight refers to it
ClearHistory ==
    /\ history' = NewDict
    /\ heap' = [id \in ObjIds |-> IF Held(id) THEN heap[id] ELSE EmptyHistory]
    /\ appended' = EmptyHistory
    /\ rd' = IF rd.pc = "idle" THEN rd ELSE [rd EXCEPT !.cleared = TRUE]
    /\ last' = [Response("clear", NoKey) EXCEPT !.ok = TRUE]
    /\ UNCHANGED <<xt, xp, last_chat, last_tasks, now>>

----------------------------------------------------------------------------
(* The sequential specification: requests are served one at a time *)

\* the request bodies explored
Texts == { <<>>, <<" ", "\t">>, <<"a">>, <<" ", "a", "\n">>, <<"b">> }
Bodies == {NoKey} \cup {Key(t) : t \in Texts}
\* a fake upstream: its outcome for each model of the list.  The loop never
\* gets past a response with the key "choices", so the outcomes after such a
\* response are fixed to one value instead of enumerated.
Upstreams ==
    { up \in [1..Len(models) -> Outcomes] :
        \A i \in 1..Len(models) :
            (\E j \in 1..(i - 1) : call_openrouter(up[j]).hasChoices)
                => up[i] = Raises("timed out") }

\* requests are explored until the clock has been read MaxClock times
AskReq == \E data \in Bodies, up \in Upstreams : Ask(data, up) /\ now' <= MaxClock
TasksReq == \E data \in Bodies, o \in Outcomes : Tasks(data, o) /\ now' <= MaxClock
DraftEmailReq == \E data \in Bodies, o \in Outcomes : DraftEmail(data, o) /\ now' <= MaxClock

Next ==
    \/ AskReq
    \/ TasksReq
    \/ DraftEmailReq
    \/ Health
    \/ GetHistory
    \/ ClearHistory

Spec == Init /\ [][Next]_vars


----------------------------------------------------------------------------
(* The long-log specification: the same handlers, driven with one request  *)
(* body and an upstream that always answers, until a log is longer than    *)
(* the window of /api/history.  One log at a time is filled; the entries   *)
(* of a log differ in their timestamps.                                    *)

LongBody == Key(<<" ", "a">>)
LongOutcome == Returns(ChoicesBody(<<Choice("r1"), Choice("r2")>>))
LongUpstream == [i \in 1..Len(models) |-> IF i = 1 THEN Raises("timed out") ELSE LongOutcome]

Logs == {"chats", "tasks", "emails"}

MayFill(log) ==
    /\ now < LongClock
    /\ Len(H[log]) < LongLog
    /\ \A other \in Logs \ {log} : H[other] = <<>>

LongAsk == MayFill("chats") /\ Ask(LongBody, LongUpstream)
LongTasks == MayFill("tasks") /\ Tasks(LongBody, LongOutcome)
LongDraftEmail == MayFill("emails") /\ DraftEmail(LongBody, LongOutcome)

NextLong ==
    \/ LongAsk
    \/ LongTasks
    \/ LongDraftEmail
    \/ Health
    \/ GetHistory
    \/ ClearHistory

SpecLong == Init /\ [][NextLong]_vars

----------------------------------------------------------------------------
(* The concurrent specification: /api/history runs statement by statement  *)
(* (the development server handles each request in its own thread) while   *)
(* /api/history/clear may run between any two of its statements.  Requests *)
(* that append are served while no /api/history is in flight.              *)

\* a variant that looks memory["history"] up again for every slice
ReadFrom_Memory == history

\* app.py:169  h, the dict the three slices are taken from
ReadFrom == rd.h

\* app.py:169  h = memory["history"]
HistoryBegin ==
    /\ rd.pc = "idle"
    /\ rd' = [pc |-> "chats", h |-> history, chats |-> <<>>, tasks |-> <<>>,
              emails |-> <<>>, pre |-> heap[history], cleared |-> FALSE]
    /\ UNCHANGED <<xt, xp, last_chat, last_tasks, heap, history, now, appended, last>>

\* app.py:171  "chats": h["chats"][-20:]
HistoryChats ==
    /\ rd.pc = "chats"
    /\ rd' = [rd EXCEPT !.pc = "tasks", !.chats = Window(heap[ReadFrom].chats)]
    /\ UNCHANGED <<xt, xp, last_chat, last_tasks, heap, history, now, appended, last>>

\* app.py:172  "tasks": h["tasks"][-20:]
HistoryTasks ==
    /\ rd.pc = "tasks"
    /\ rd' = [rd EXCEPT !.pc = "emails", !.tasks = Window(heap[ReadFrom].tasks)]
    /\ UNCHANGED <<xt, xp, last_chat, last_tasks, heap, history, now, appended, last>>

\* app.py:170-174  "emails": h["emails"][-20:], and the response; the dict h
\* referred to is dropped unless it is still memory["history"]
HistoryEmails ==
    /\ rd.pc = "emails"
    /\ rd' = [rd EXCEPT !.pc = "idle", !.emails = Window(heap[ReadFrom].emails)]
    /\ last' = [Response("history", NoKey) EXCEPT
                   !.hist = [chats |-> rd.chats, tasks |-> rd.tasks,
                             emails |-> Window(heap[ReadFrom].emails)]]
    /\ heap' = [id \in ObjIds |-> IF id = history THEN heap[id] ELSE EmptyHistory]
    /\ UNCHANGED <<xt, xp, last_chat, last_tasks, history, now, appended>>

ConcAsk == rd.pc = "idle" /\ now < ConcClock /\ Ask(LongBody, LongUpstream)
ConcTasks == rd.pc = "idle" /\ now < ConcClock /\ Tasks(LongBody, LongOutcome)
ConcDraftEmail == rd.pc = "idle" /\ now < ConcClock /\ DraftEmail(LongBody, LongOutcome)

NextConc ==
    \/ ConcAsk
    \/ ConcTasks
    \/ ConcDraftEmail
    \/ HistoryBegin
    \/ HistoryChats
    \/ HistoryTasks
    \/ HistoryEmails
    \/ ClearHistory

SpecConc == Init /\ [][NextConc]_vars

----------------------------------------------------------------------------
(* The XP specification: /api/xp with every explored action label, between *)
(* the other requests, requests served one at a time.                      *)

XpActions ==
    { <<>>, <<"c","h","a","t">>, <<"C","h","a","t">>,
      <<"t","a","s","k">>, <<"T","A","S","K">>, <<"t","a","s","k","s">>,
      <<"e","m","a","i","l">>, <<"E","m","a","i","L">>, <<"x">>, <<"X">> }
XpBodies == {NoKey} \cup {Key(a) : a \in XpActions}

XpReq == \E data \in XpBodies : xp < MaxXp /\ XpUpdate(data)

NextXp ==
    \/ XpReq
    \/ ConcAsk
    \/ ConcTasks
    \/ ConcDraftEmail
    \/ Health
    \/ GetHistory
    \/ ClearHistory

SpecXp == Init /\ [][NextXp]_vars


----------------------------------------------------------------------------
(* The concurrent XP specification: two /api/xp requests are served by two *)
(* threads at once.  memory["xp"] += gain is a load of memory["xp"], an    *)
(* addition and a store, and the interpreter may switch threads between    *)
(* the load and the store; the response reads memory["xp"] once more.      *)

\* a variant that stores the gain alone: memory["xp"] = gain
XpStored_GainOnly(t) == xt.th[t].gain

\* app.py:150  the value the store of memory["xp"] += gain writes
XpStored(t) == xt.th[t].reg + xt.th[t].gain

\* app.py:147-149  both requests arrive; each thread has its action and gain
XpArrive ==
    /\ \A t \in XpThreads : xt.th[t].pc \in {"idle", "done"}
    /\ xp < MaxXp
    /\ \E req \in [XpThreads -> XpBodies] :
          xt' = [ base |-> xp,
                  th |-> [t \in XpThreads |->
                            [pc |-> "load", data |-> req[t],
                             gain |-> Gain(ActionOf(req[t])), reg |-> 0, total |-> 0]] ]
    /\ UNCHANGED <<xp, last_chat, last_tasks, heap, history, now, rd, appended, last>>

\* app.py:150  memory["xp"] += gain: the load
XpLoad(t) ==
    /\ xt.th[t].pc = "load"
    /\ xt' = [xt EXCEPT !.th[t].pc = "store", !.th[t].reg = xp]
    /\ UNCHANGED <<xp, last_chat, last_tasks, heap, history, now, rd, appended, last>>

\* app.py:150  memory["xp"] += gain: the store
XpStore(t) ==
    /\ xt.th[t].pc = "store"
    /\ xp' = XpStored(t)
    /\ xt' = [xt EXCEPT !.th[t].pc = "respond"]
    /\ UNCHANGED <<last_chat, last_tasks, heap, history, now, rd, appended, last>>

\* app.py:151  the response, with memory["xp"] as it is now
XpRespond(t) ==
    /\ xt.th[t].pc = "respond"
    /\ xt' = [xt EXCEPT !.th[t].pc = "done", !.th[t].total = xp]
    /\ last' = [Response("xp", xt.th[t].data) EXCEPT
                   !.action = ActionOf(xt.th[t].data),
                   !.xp_gained = xt.th[t].gain, !.total_xp = xp]
    /\ UNCHANGED <<xp, last_chat, last_tasks, heap, history, now, rd, appended>>

XpLoadStep == \E t \in XpThreads : XpLoad(t)
XpStoreStep == \E t \in XpThreads : XpStore(t)
XpRespondStep == \E t \in XpThreads : XpRespond(t)

NextXpConc ==
    \/ XpArrive
    \/ XpLoadStep
    \/ XpStoreStep
    \/ XpRespondStep

SpecXpConc == Init /\ [][NextXpConc]_vars

----------------------------------------------------------------------------
(* The session specification: all seven handlers, requests served one at a *)
(* time, with blank and non-blank texts, an upstream that fails, answers   *)
(* with an empty choices list or answers properly, and /api/xp in between. *)

SessionBodies == { NoKey, Key(<<" ", "\t">>), Key(<<" ", "a", "\n">>), Key(<<"b">>) }
SessionOutcomes == { Raises("timed out"), Returns(ChoicesBody(<<>>)), LongOutcome }
SessionUpstreams == { up \in Upstreams : \A i \in 1..Len(models) : up[i] \in SessionOutcomes }
SessionXpBodies == { NoKey, Key(<<"T","A","S","K">>) }

SessionAsk ==
    \E data \in SessionBodies, up \in SessionUpstreams : Ask(data, up) /\ now' <= MaxClock
SessionTasks ==
    \E data \in SessionBodies, o \in SessionOutcomes : Tasks(data, o) /\ now' <= MaxClock
SessionDraftEmail ==
    \E data \in SessionBodies, o \in SessionOutcomes : DraftEmail(data, o) /\ now' <= MaxClock
SessionXp == \E data \in SessionXpBodies : xp < MaxXp /\ XpUpdate(data)

NextSession ==
    \/ SessionAsk
    \/ SessionTasks
    \/ SessionDraftEmail
    \/ SessionXp
    \/ Health
    \/ GetHistory
    \/ ClearHistory

SpecSession == Init /\ [][NextSession]_vars

----------------------------------------------------------------------------
(* Vocabulary of the properties *)

IsPrefix(s, t) == Len(s) <= Len(t) /\ SubSeq(t, 1, Len(s)) = s

\* a request text that is absent, empty or made of whitespace only
IsBlank(data) == ~data.has \/ \A i \in 1..Len(data.val) : data.val[i] \in {" ", "\t", "\n", "\r"}

\* the response the upstream client hands to the handler carries the key "choices"
ContainsChoices(o) == ~o.raises /\ o.body.hasChoices

\* ... and the list under that key has a first element
NonEmptyChoices(o) == ContainsChoices(o) /\ o.body.choices # <<>>

\* position k is the first one whose outcome satisfies P
FirstAt(P(_), up, k) == P(up[k]) /\ \A j \in 1..(k - 1) : ~P(up[j])

\* the calls made were to the first k models of the list, one each, in order
CalledFirst(k, calls) ==
    /\ Len(calls) = k
    /\ \A i \in 1..k : calls[i].model = models[i]

\* the response is a reply with the first choice of outcome o, tagged with model m
RepliesWith(resp, o, m) ==
    /\ resp.status = 200 /\ ~resp.fault
    /\ o.body.choices # <<>>
    /\ resp.reply = Some(o.body.choices[1].content)
    /\ resp.model = m

AllModelsFailed(resp) ==
    /\ resp.status = 500 /\ ~resp.fault
    /\ resp.error = JStr("All models failed")

----------------------------------------------------------------------------
(* C1: a non-blank /api/ask tries the three models in list order, one call *)
(* each, and stops at the first model whose response contains choices; if  *)
(* that model is the k-th, the reply is that response's first-choice       *)
(* content, tagged with that model, and exactly k calls were made.         *)
C1_FirstChoicesReplies ==
    (last.ep = "ask" /\ ~IsBlank(last.req)) =>
        \A k \in 1..Len(models) :
            FirstAt(ContainsChoices, last.up, k) =>
                /\ CalledFirst(k, last.calls)
                /\ RepliesWith(last, last.up[k], models[k])

(* C2: a non-blank /api/ask for which none of the three responses contains *)
(* choices answers 500 "All models failed" after exactly three upstream    *)
(* calls and appends no chat record.                                       *)
C2_AllFailed ==
    [][ (last'.ep = "ask" /\ ~IsBlank(last'.req)
            /\ \A k \in 1..Len(models) : ~ContainsChoices(last'.up[k]))
        => /\ AllModelsFailed(last')
           /\ CalledFirst(3, last'.calls)
           /\ H' = H
           /\ appended' = appended ]_vars

\* all three models failed, once by a transport error and once by an upstream
\* error payload, with a chat already in the log
C2_Witness ==
    /\ last.ep = "ask" /\ AllModelsFailed(last) /\ Len(last.calls) = 3
    /\ \E i, j \in 1..3 : last.up[i].raises /\ ~last.up[j].raises
    /\ H.chats # <<>>

(* C3: a blank, whitespace-only or absent message gets 400 "Empty message",*)
(* no upstream call is made and the three history logs stay as they were.  *)
C3_BlankMessage ==
    [][ (last'.ep = "ask" /\ IsBlank(last'.req))
        => /\ last'.status = 400 /\ ~last'.fault
           /\ last'.error = JStr("Empty message")
           /\ last'.calls = <<>>
           /\ heap' = heap /\ history' = history ]_vars

\* a whitespace-only message was refused while the logs held records
C3_Witness ==
    /\ last.ep = "ask" /\ last.status = 400
    /\ last.req.has /\ last.req.val # <<>>
    /\ H.chats # <<>> /\ H.tasks # <<>>


----------------------------------------------------------------------------
\* the upper-case and lower-case form of the letters of the gain table
CasePairs ==
    { <<"A","a">>, <<"C","c">>, <<"E","e">>, <<"H","h">>, <<"I","i">>, <<"K","k">>,
      <<"L","l">>, <<"M","m">>, <<"S","s">>, <<"T","t">> }

\* text a is the lower-case label, up to the case of its letters
IsLabel(a, label) ==
    /\ Len(a) = Len(label)
    /\ \A i \in 1..Len(a) : a[i] = label[i] \/ <<a[i], label[i]>> \in CasePairs

\* the gain of a recognized label, 5 for every other label
GainOfLabel(a) ==
    IF IsLabel(a, <<"c","h","a","t">>) THEN 10
    ELSE IF IsLabel(a, <<"t","a","s","k">>) THEN 20
    ELSE IF IsLabel(a, <<"e","m","a","i","l">>) THEN 15
    ELSE 5

\* the gain as claimed: 10 for an omitted action, else by the label
ClaimedGain(data) == IF ~data.has THEN 10 ELSE GainOfLabel(data.val)

\* the gain with an empty action string counted as omitted
AmendedGain(data) == IF ~data.has \/ data.val = <<>> THEN 10 ELSE GainOfLabel(data.val)

(* C4 as stated: /api/xp adds 20 for "task", 10 for an omitted action or   *)
(* "chat", 15 for "email" and 5 for any unrecognized action string,        *)
(* matching case-insensitively; total_xp is the stored total after the     *)
(* increase and xp_gained is the increase.                                 *)
C4_AsStated ==
    [][ last'.ep = "xp"
        => /\ xp' = xp + ClaimedGain(last'.req)
           /\ last'.xp_gained = ClaimedGain(last'.req)
           /\ last'.total_xp = xp' ]_vars

(* C4 amended: as C4, except that an empty action string counts as an      *)
(* omitted action (+10); only a non-empty unrecognized string gives 5.     *)
C4_XpGain ==
    [][ last'.ep = "xp"
        => /\ xp' = xp + AmendedGain(last'.req)
           /\ last'.xp_gained = AmendedGain(last'.req)
           /\ last'.total_xp = xp' ]_vars

\* "TASK" earned 20 on top of earlier gains
C4_Witness ==
    /\ last.ep = "xp" /\ last.req = Key(<<"T","A","S","K">>)
    /\ last.xp_gained = 20 /\ last.total_xp = xp /\ xp > 520

(* C5: /api/history returns, for each log, exactly the last min(N, 20) of  *)
(* the N records appended since the last clear, oldest of the window first.*)
C5_TailWindow ==
    last.ep = "history" =>
        \A log \in Logs :
            LET all == appended[log]
                N == Len(all)
                got == last.hist[log]
            IN  /\ Len(got) = (IF N < 20 THEN N ELSE 20)
                /\ \A i \in 1..Len(got) : got[i] = all[N - Len(got) + i]

\* more than 20 chats were appended and the 20 most recent came back
C5_Witness ==
    /\ last.ep = "history"
    /\ Len(appended.chats) > 20
    /\ Len(last.hist.chats) = 20
    /\ last.hist.chats[1].ts < last.hist.chats[20].ts

(* C6: /api/history served right after /api/history/clear returns empty    *)
(* sequences for chats, tasks and emails.                                  *)
C6_ClearThenHistory ==
    (last.ep = "history" /\ last.afterClear) =>
        /\ last.hist.chats = <<>>
        /\ last.hist.tasks = <<>>
        /\ last.hist.emails = <<>>

\* the history was read right after a clear, and records had been appended before
C6_Witness ==
    /\ last.ep = "history" /\ last.afterClear
    /\ now > 0

(* C7: the logs are append-only: a request other than clear leaves each    *)
(* log a prefix of what it becomes, and a step that shrinks or rewrites a  *)
(* log is a clear, which leaves all three logs empty.                      *)
C7_AppendOnly ==
    [][ /\ last'.ep # "clear" => \A log \in Logs : IsPrefix(H[log], H'[log])
        /\ (\E log \in Logs : ~IsPrefix(H[log], H'[log]))
              => last'.ep = "clear" /\ H' = EmptyHistory ]_vars

\* a log holds two records, appended by two requests
C7_Witness ==
    /\ last.ep # "clear"
    /\ \E log \in Logs : Len(H[log]) >= 2

(* C8: /api/tasks and /api/draft-email with a non-blank thread make one    *)
(* upstream call, to the default model; a response without choices gives   *)
(* 400 with the upstream payload as error and leaves the logs and          *)
(* last_tasks unchanged; a response with choices appends exactly one       *)
(* record to the handler's own log and none to the others.                 *)
C8_SingleShot ==
    [][ (\/ last'.ep = "tasks"
         \/ last'.ep = "draft-email" /\ ~IsBlank(last'.req))
        => LET own == IF last'.ep = "tasks" THEN "tasks" ELSE "emails"
               o == last'.up[1]
           IN  /\ Len(last'.calls) = 1
               /\ last'.calls[1].model = MODEL
               /\ IF ContainsChoices(o)
                  THEN /\ Len(H'[own]) = Len(H[own]) + 1
                       /\ IsPrefix(H[own], H'[own])
                       /\ \A log \in Logs \ {own} : H'[log] = H[log]
                  ELSE /\ last'.status = 400 /\ ~last'.fault
                       /\ last'.error = JObj(call_openrouter(o))
                       /\ H' = H
                       /\ last_tasks' = last_tasks ]_vars

(* C9: in /api/ask a response whose choices list is empty is skipped: the  *)
(* reply comes from the first model with a non-empty choices list, and if  *)
(* there is none the answer is the JSON failure 500 "All models failed".   *)
C9_EmptyChoicesSkipped ==
    (last.ep = "ask" /\ ~IsBlank(last.req)) =>
        /\ \A k \in 1..Len(models) :
              FirstAt(NonEmptyChoices, last.up, k) =>
                  /\ CalledFirst(k, last.calls)
                  /\ RepliesWith(last, last.up[k], models[k])
        /\ (\A k \in 1..Len(models) : ~NonEmptyChoices(last.up[k])) =>
              /\ AllModelsFailed(last)
              /\ CalledFirst(3, last.calls)

(* C10: a /api/history read that overlaps a clear returns three sequences  *)
(* that are all taken from the logs as they were before the clear, or all  *)
(* from the (empty) logs after it, never some of each.                     *)
C10_ClearAtomicForReader ==
    (last.ep = "history" /\ rd.pc = "idle") =>
        \/ last.hist = [log \in Logs |-> Window(rd.pre[log])]
        \/ last.hist = EmptyHistory

\* a clear ran between the statements of the read, and the read returned
\* the records of before the clear
C10_Witness ==
    /\ last.ep = "history" /\ rd.pc = "idle" /\ rd.cleared
    /\ last.hist.chats # <<>> /\ last.hist.tasks # <<>> /\ last.hist.emails # <<>>
    /\ H = EmptyHistory


----------------------------------------------------------------------------
\* both concurrent /api/xp requests have been answered
BothAnswered == \A t \in XpThreads : xt.th[t].pc = "done"

\* the stored total after two concurrent gains g1 and g2 on top of base:
\* both gains, or only one of them when an update was lost
AfterTwoGains(base, g1, g2) == {base + g1 + g2, base + g1, base + g2}

(* C11: XP updates are unsynchronized read-modify-write steps.  When two   *)
(* concurrent /api/xp requests have both completed, the stored total has   *)
(* grown by both gains or by only one of them (a lost update), each client *)
(* was told its own gain, and each total it was told is one of those       *)
(* values; the lost update is the state C11_Witness.                       *)
C11_XpRace ==
    BothAnswered =>
        LET g1 == xt.th[1].gain
            g2 == xt.th[2].gain
        IN  /\ xp \in AfterTwoGains(xt.base, g1, g2)
            /\ \A t \in XpThreads :
                  /\ xt.th[t].gain = AmendedGain(xt.th[t].data)
                  /\ xt.th[t].total \in AfterTwoGains(xt.base, g1, g2)

\* both requests completed, the clients were told gains of 20 and 15, and the
\* stored total grew by one gain only
C11_Witness ==
    /\ BothAnswered
    /\ xt.th[1].gain = 20 /\ xt.th[2].gain = 15
    /\ xp < xt.base + xt.th[1].gain + xt.th[2].gain
    /\ xp \in {xt.base + 20, xt.base + 15}


----------------------------------------------------------------------------
\* text t is text s without its leading and trailing whitespace
IsTrimOf(t, s) ==
    \E i \in 1..(Len(s) + 1), j \in 0..Len(s) :
        /\ t = SubSeq(s, i, j)
        /\ \A k \in 1..Len(s) : (k < i \/ k > j) => s[k] \in {" ", "\t", "\n", "\r"}
        /\ t # <<>> => t[1] \notin {" ", "\t", "\n", "\r"}
                       /\ t[Len(t)] \notin {" ", "\t", "\n", "\r"}

(* C12: every successful /api/ask appends exactly one chat record, whose   *)
(* user text is the trimmed message and whose assistant text is the reply  *)
(* of the same response; no other request but clear changes the chat log   *)
(* and clear empties it, so the chat records since the last clear are as   *)
(* many as the successful /api/ask calls since then.                       *)
C12_OneChatPerAsk ==
    [][ LET answered == last'.ep = "ask" /\ last'.status = 200
            n == Len(H'.chats)
        IN  /\ answered =>
                  /\ n = Len(H.chats) + 1
                  /\ IsPrefix(H.chats, H'.chats)
                  /\ IsTrimOf(H'.chats[n].user, last'.req.val)
                  /\ last'.reply = Some(H'.chats[n].ai)
            /\ (~answered /\ last'.ep # "clear") => H'.chats = H.chats
            /\ last'.ep = "clear" => H'.chats = <<>> ]_vars

\* the second successful chat, of a message sent with whitespace around it
C12_Witness ==
    /\ last.ep = "ask" /\ last.status = 200
    /\ last.req = Key(<<" ", "a", "\n">>)
    /\ Len(H.chats) = 2
    /\ H.chats[2].user = <<"a">>
    /\ last.reply = Some(H.chats[2].ai)


----------------------------------------------------------------------------
(* C13: the 20-entry window is applied on read only: /api/history and      *)
(* /api/health leave the state store as it is, and a stored log holds      *)
(* every record appended since the last clear, also when there are more    *)
(* than 20 of them.                                                        *)
C13_WindowOnReadOnly ==
    [][ /\ last'.ep \in {"history", "health"} =>
              /\ xp' = xp /\ last_chat' = last_chat /\ last_tasks' = last_tasks
              /\ heap' = heap /\ history' = history
        /\ \A log \in Logs :
              /\ H'[log] = appended'[log]
              /\ last'.ep # "clear" => Len(H'[log]) >= Len(H[log]) ]_vars

\* the task log was read while it held more than 20 records, and holds them still
C13_Witness ==
    /\ last.ep = "history"
    /\ Len(H.tasks) > 20
    /\ Len(last.hist.tasks) = 20
    /\ H.tasks = appended.tasks


----------------------------------------------------------------------------
(* C14: a non-blank /api/ask message or /api/draft-email thread sets       *)
(* last_chat to its trimmed text whatever the upstream then does; no other *)
(* request (blank ones, /api/tasks, /api/xp, /api/history, clear) changes  *)
(* last_chat; /api/health reports the stored last_chat.  So the reported   *)
(* value is the trimmed text of the most recent such request.              *)
C14_LastChat ==
    [][ LET remembered == last'.ep \in {"ask", "draft-email"} /\ ~IsBlank(last'.req)
        IN  /\ remembered =>
                  /\ Len(last_chat') = 1
                  /\ IsTrimOf(last_chat'[1], last'.req.val)
            /\ ~remembered => last_chat' = last_chat
            /\ last'.ep = "health" => last'.health.last_chat = last_chat' ]_vars

\* health reports the text of a request although no request has appended a
\* record yet: every upstream call so far failed; xp was raised in between
C14_Witness ==
    /\ last.ep = "health"
    /\ last.health.last_chat = Some(<<"a">>)
    /\ now = 0
    /\ xp > 500

(* C15: xp starts at 500, never decreases and is changed by /api/xp only;  *)
(* clear empties the history logs and leaves xp, last_chat and last_tasks  *)
(* as they are.                                                            *)
C15_XpFrame ==
    /\ xp = 500
    /\ [][ /\ xp' >= xp /\ xp' >= 500
           /\ xp' # xp => last'.ep = "xp"
           /\ last'.ep \in {"ask", "tasks", "draft-email", "history", "clear"} => xp' = xp
           /\ last'.ep = "clear" =>
                 /\ H' = EmptyHistory
                 /\ last_chat' = last_chat /\ last_tasks' = last_tasks ]_vars

\* a clear was served after xp gains, a chat and a task list; all three remain
C15_Witness ==
    /\ last.ep = "clear"
    /\ xp > 500
    /\ last_chat # None /\ last_tasks # None
    /\ now > 0 /\ H = EmptyHistory

============================================================================
